---- MODULE Spec2Model ----
(***************************************************************************)
(* heightmap_rtx: the public entry points of src/src/heightmap_rtx.cpp and *)
(* the constructors and destructors they run (hrtx_pipeline.hpp,           *)
(* hrtx_map.hpp, vulkan_objects.hpp, vulkan_bindings.hpp, context.hpp).    *)
(*                                                                         *)
(* A constructor is modelled as the sequence of effects it performs in     *)
(* C++ member-initialisation order: allocator createBuffer calls, driver   *)
(* vkCreate* calls whose VkResult goes through HrtxContext::checkResult,   *)
(* and commands recorded into the caller's command buffer.  The caller's   *)
(* check callback may return or throw; a throw unwinds the constructor.    *)
(***************************************************************************)
EXTENDS Integers, Sequences, FiniteSets, TLC

VARIABLES
  pipelines,   \* HrtxPipeline handle -> the HrtxPipeline_T it names
  maps,        \* HrtxMap handle -> the HrtxMap_T it names
  buffers,     \* live VkBuffer* obtained from allocator.createBuffer
  objects,     \* live driver objects (vkCreate*/vkAllocate*)
  cmd,         \* the caller's VkCommandBuffer: the commands recorded so far
  call,        \* the most recent public call: arguments, effects, outcome
  crashed      \* the process read freed memory and took the fatal outcome

vars == <<pipelines, maps, buffers, objects, cmd, call, crashed>>

----------------------------------------------------------------------------
(* Bounds of the model.                                                    *)
MaxPipelines == 1
MaxMaps == 2
MaxFailures == 1

(* VkResult values (vulkan_core.h) as used by the sources.                 *)
VK_SUCCESS == 0
VK_INCOMPLETE == 5
VK_ERROR_OUT_OF_HOST_MEMORY == -1
VK_ERROR_INITIALIZATION_FAILED == -3
VK_ERROR_FORMAT_NOT_SUPPORTED == -11

NULL == 0

(* sizeof(float) * 2, sizeof(VkMicromapTriangleEXT), workgroup size,       *)
(* micro-vertices handled per 64-triangle block, address-table geometry.   *)
SizeofFloat2 == 8
SizeofVkMicromapTriangleEXT == 8
COMPRESS_WORKGROUP_SIZE == 256
microTrianglesPerBlock == 45
BlockToBirdUVTableEntries == 970
SizeofBaryUV16 == 4

----------------------------------------------------------------------------
(* Generic helpers.                                                        *)
Max(a, b) == IF a >= b THEN a ELSE b

RECURSIVE Pow2(_)
Pow2(n) == IF n = 0 THEN 1 ELSE 2 * Pow2(n - 1)

RECURSIVE Flatten(_)
Flatten(ss) == IF ss = <<>> THEN <<>> ELSE Head(ss) \o Flatten(Tail(ss))

Reverse(s) == [i \in 1..Len(s) |-> s[Len(s) + 1 - i]]

----------------------------------------------------------------------------
(* Machine integers.  A value of an n-byte integer type is the sequence of *)
(* its n bytes, least significant first, so that uint32_t, int32_t and     *)
(* the 64-bit VkDeviceSize keep their widths: every operation below        *)
(* yields its result modulo 256^n.                                         *)
Zeros == <<0, 0, 0, 0, 0, 0, 0, 0, 0, 0, 0, 0, 0, 0, 0, 0>>

(* Conversion to an n-byte type: truncation or zero extension.             *)
Extend(w, n) ==
  IF Len(w) >= n THEN SubSeq(w, 1, n) ELSE w \o SubSeq(Zeros, 1, n - Len(w))

RECURSIVE ToWord(_, _)
ToWord(x, n) ==
  IF x = 0 THEN SubSeq(Zeros, 1, n)
  ELSE IF n = 0 THEN <<>>
  ELSE <<x % 256>> \o ToWord(x \div 256, n - 1)

(* The value of a word that is small enough to be written down.            *)
RECURSIVE ToInt(_)
ToInt(w) ==
  IF w = Extend(<<>>, Len(w)) THEN 0 ELSE Head(w) + 256 * ToInt(Tail(w))

RECURSIVE AddC(_, _, _)
AddC(a, b, c) ==
  IF a = <<>> THEN <<>>
  ELSE IF c = 0 /\ b = Extend(<<>>, Len(b)) THEN a
  ELSE LET sum == Head(a) + Head(b) + c
       IN  <<sum % 256>> \o AddC(Tail(a), Tail(b), sum \div 256)

Add(a, b, n) == AddC(Extend(a, n), Extend(b, n), 0)

RECURSIVE Not(_)
Not(w) == IF w = <<>> THEN <<>> ELSE <<255 - Head(w)>> \o Not(Tail(w))

Sub(a, b, n) == AddC(Extend(a, n), Not(Extend(b, n)), 1)

RECURSIVE MulC(_, _, _)
MulC(a, k, c) ==
  IF a = <<>> THEN <<>>
  ELSE LET prod == Head(a) * k + c
       IN  <<prod % 256>> \o MulC(Tail(a), k, prod \div 256)

RECURSIVE Mul(_, _, _)
Mul(a, b, n) ==
  IF n = 0 THEN <<>>
  ELSE IF a = Extend(<<>>, Len(a)) THEN Extend(<<>>, n)
  ELSE IF Head(a) = 0 THEN <<0>> \o Mul(Tail(a), b, n - 1)
  ELSE AddC(MulC(Extend(b, n), Head(a), 0), <<0>> \o Mul(Tail(a), b, n - 1), 0)

(* Unsigned division by a small divisor, most significant byte first.      *)
RECURSIVE DivR(_, _, _)
DivR(w, d, i) ==
  IF i = 0 THEN [q |-> <<>>, r |-> 0]
  ELSE LET hi == DivR(w, d, i - 1)
           cur == hi.r * 256 + w[Len(w) + 1 - i]
       IN  [q |-> <<cur \div d>> \o hi.q, r |-> cur % d]

Div(w, d) == DivR(w, d, Len(w)).q

RECURSIVE BitAnd(_, _, _)
BitAnd(x, y, bits) ==
  IF bits = 0 \/ x = 0 \/ y = 0 THEN 0
  ELSE (x % 2) * (y % 2) + 2 * BitAnd(x \div 2, y \div 2, bits - 1)

RECURSIVE And(_, _)
And(a, b) ==
  IF a = <<>> THEN <<>>
  ELSE <<BitAnd(Head(a), Head(b), 8)>> \o And(Tail(a), Tail(b))

Less(a, b) ==
  \E i \in 1..Len(a) :
    /\ a[i] < b[i]
    /\ \A j \in (i + 1)..Len(a) : a[j] = b[j]

MaxW(a, b) == IF Less(a, b) THEN b ELSE a

(* 1U << s, defined by C++ for s below the width of the type.              *)
RECURSIVE Shl1(_, _)
Shl1(s, n) ==
  IF n = 0 THEN <<>>
  ELSE <<IF s \in 0..7 THEN Pow2(s) ELSE 0>> \o Shl1(s - 8, n - 1)

(* A signed value is negative when its top bit is set; signed division     *)
(* truncates toward zero.                                                  *)
IsNegative(w) == w[Len(w)] >= 128

Negate(w) == AddC(Not(w), Extend(<<>>, Len(w)), 1)

SDiv(w, d) == IF IsNegative(w) THEN Negate(Div(Negate(w), d)) ELSE Div(w, d)

U32(x) == ToWord(x, 4)
U64(x) == ToWord(x, 8)

----------------------------------------------------------------------------
(* hrtx_map.hpp: sizing functions.  create.primitiveCount is a uint32_t    *)
(* word; subdivision levels are small enough to be written as numbers.     *)
microVertsPerTriangle_edgeTimesEdge(subdivisionLevel) ==
  LET microVertsPerEdge == Add(Shl1(subdivisionLevel, 4), U32(1), 4)
  IN  Extend(Div(Mul(microVertsPerEdge, microVertsPerEdge, 4), 2), 8)

microVertsPerTriangle(subdivisionLevel) ==
  LET microVertsPerEdge == Add(Shl1(subdivisionLevel, 4), U32(1), 4)
  IN  Extend(Div(Mul(microVertsPerEdge, Add(microVertsPerEdge, U32(1), 4), 4), 2), 8)

baryLosslessBlocks_twoPerLevel(create) ==
  LET micromap6464BlocksPerTriangle == Shl1(Max(3, create.subdivisionLevel) - 3, 4)
      micromapBlockCount == Mul(create.primitiveCount, micromap6464BlocksPerTriangle, 4)
  IN  Extend(micromapBlockCount, 8)

baryLosslessBlocks(create) ==
  LET micromap6464BlocksPerTriangle == Shl1((Max(3, create.subdivisionLevel) - 3) * 2, 4)
      micromapBlockCount == Mul(create.primitiveCount, micromap6464BlocksPerTriangle, 4)
  IN  Extend(micromapBlockCount, 8)

align_up_roundsDown(x, alignPOT) ==
  LET n == Len(x)
      mask == Sub(alignPOT, ToWord(1, n), n)
  IN  And(x, Not(mask))

align_up(x, alignPOT) ==
  LET n == Len(x)
      mask == Sub(alignPOT, ToWord(1, n), n)
  IN  And(Add(x, mask, n), Not(mask))

----------------------------------------------------------------------------
(* Effects of constructors.  k is the kind of effect; the other fields     *)
(* are filled as the kind needs.                                           *)
NoCmd == [op |-> "none", res |-> <<>>, src |-> <<>>, dst |-> <<>>, args |-> <<>>]

EffBuffer(id, size) ==
  [k |-> "createBuffer", id |-> id, size |-> size, result |-> VK_SUCCESS, c |-> NoCmd]
EffCreate(id, result) ==
  [k |-> "vkCreate", id |-> id, size |-> 0, result |-> result, c |-> NoCmd]
EffMember(id) ==
  [k |-> "member", id |-> id, size |-> 0, result |-> VK_SUCCESS, c |-> NoCmd]
EffCmd(c) ==
  [k |-> "cmd", id |-> <<>>, size |-> 0, result |-> VK_SUCCESS, c |-> c]

(* HrtxContext::checkResult: the result reaches the callback when one was  *)
(* supplied.  cb is what the caller supplied: "none" (null), "returns" (a  *)
(* callback that records the result and returns), "throws" (a callback     *)
(* that throws on a failure result, as heightmap_rtx.h suggests).          *)
CheckResultCallbacks == {"none", "returns", "throws"}

checkResult_dropsResult(cb, result) ==
  [passed |-> <<>>, throws |-> FALSE]

checkResult_callsTwice(cb, result) ==
  [passed |-> IF cb # "none" THEN <<result, result>> ELSE <<>>,
   throws |-> cb = "throws" /\ result < 0]

checkResult(cb, result) ==
  [passed |-> IF cb # "none" THEN <<result>> ELSE <<>>,
   throws |-> cb = "throws" /\ result < 0]

(* Vulkan object addresses: vkGetBufferDeviceAddress names the buffer.     *)
Address(bufferId) == <<"address", bufferId>>

----------------------------------------------------------------------------
(* The driver's answers during one public call: which creation calls       *)
(* report a failure, and the sizes it reports for the micromap build.      *)
DriverResult(drv, id) ==
  IF id[3] \in drv.fails THEN VK_ERROR_OUT_OF_HOST_MEMORY ELSE VK_SUCCESS

----------------------------------------------------------------------------
(* vulkan_objects.hpp.                                                     *)
Buffer(id, size) == <<EffBuffer(id, size)>>

Buffer_update(id, size, data) ==
  [op |-> "vkCmdUpdateBuffer", res |-> id, src |-> <<>>, dst |-> <<>>,
   args |-> <<0, size, data>>]

Buffer_clear(id, size) ==
  [op |-> "vkCmdFillBuffer", res |-> id, src |-> <<>>, dst |-> <<>>,
   args |-> <<0, size, 0>>]

ShaderModule(id, drv) == <<EffCreate(id, DriverResult(drv, id))>>

PipelineLayout(id, drv) == <<EffCreate(id, DriverResult(drv, id))>>

ComputePipeline(id, drv) == <<EffCreate(id, DriverResult(drv, id))>>

memoryBarrier(srcStageMask, srcAccessMask, dstStageMask, dstAccessMask) ==
  [op |-> "vkCmdPipelineBarrier", res |-> <<>>,
   src |-> <<srcStageMask, srcAccessMask>>,
   dst |-> <<dstStageMask, dstAccessMask>>, args |-> <<>>]

memoryBarrier2_noAccessMasks(srcStageMask, srcAccessMask, dstStageMask, dstAccessMask) ==
  [op |-> "vkCmdPipelineBarrier2", res |-> <<>>,
   src |-> <<srcStageMask, {}>>,
   dst |-> <<dstStageMask, {}>>, args |-> <<>>]

memoryBarrier2(srcStageMask, srcAccessMask, dstStageMask, dstAccessMask) ==
  [op |-> "vkCmdPipelineBarrier2", res |-> <<>>,
   src |-> <<srcStageMask, srcAccessMask>>,
   dst |-> <<dstStageMask, dstAccessMask>>, args |-> <<>>]

(* context.hpp: the context is a member of the pipeline; every wrapper     *)
(* object keeps a reference to it.                                         *)
HrtxContext(id) == <<EffMember(id)>>

(* vulkan_bindings.hpp.                                                    *)
DescriptorSetLayout(id, drv) == <<EffCreate(id, DriverResult(drv, id))>>

SingleDescriptorSetPool(id, drv) == <<EffCreate(id, DriverResult(drv, id))>>

DescriptorSet(id, drv) == <<EffCreate(id, DriverResult(drv, id))>>

SingleBinding(owner, member, drv) ==
  DescriptorSetLayout(<<owner[1], owner[2], member \o ".m_layout">>, drv)

SingleDescriptorSet(owner, member, drv) ==
     SingleDescriptorSetPool(<<owner[1], owner[2], member \o ".m_pool">>, drv)
  \o DescriptorSet(<<owner[1], owner[2], member \o ".m_set">>, drv)

----------------------------------------------------------------------------
(* hrtx_pipeline.hpp.                                                      *)
BirdTableSize == BlockToBirdUVTableEntries * SizeofBaryUV16

(* bird_curve_table.h: birdVertexToBaryTableOffsets[l] is where the        *)
(* micro-vertices of subdivision level l start in birdVertexToBaryTable,   *)
(* l = 0..6 (the tuple is indexed from 1).                                 *)
birdVertexToBaryTableOffsets == <<0, 3, 9, 24, 69, 222, 783>>

(* bird_curve_table.h: birdVertexToBaryTable[k], the k-th barycentric UV   *)
(* of the base table, and birdIndexBlockLocalToGlobal[row][i], the index   *)
(* within its level's slice of the base table of micro-vertex i of block   *)
(* row (rows 0..3: level 4, rows 4..19: level 5).  The header's values are *)
(* data; the constructor is modelled over several contents.                *)
birdVertexToBaryTable(k) == <<"birdVertexToBaryTable", k>>

BirdIndexContents == 0..2

birdIndexBlockLocalToGlobal(contents) ==
  [row \in 0..19 |->
     [i \in 0..44 |->
        ((contents + 1) * (45 * row + i) + row)
          % (IF row < 4
             THEN birdVertexToBaryTableOffsets[5 + 1] - birdVertexToBaryTableOffsets[4 + 1]
             ELSE birdVertexToBaryTableOffsets[6 + 1] - birdVertexToBaryTableOffsets[5 + 1])]]

(* Elements of birdIndexBlockLocalToGlobal[rows][45] in the pointer range  *)
(* from &t[firstRow][0] up to &t[lastRow][45].                             *)
BlockLocalToGlobalRange(firstRow, lastRow) ==
  [k \in 1..((lastRow * 45 + 45) - firstRow * 45) |->
     [block |-> firstRow + (k - 1) \div 45, local |-> (k - 1) % 45]]

(* std::copy of the first n base entries.                                  *)
CopyBase(n) ==
  [i \in 1..n |-> [from |-> "birdVertexToBaryTable", level |-> 3,
                   block |-> 0, local |-> i - 1,
                   value |-> birdVertexToBaryTable(i - 1)]]

(* std::transform over a pointer range of birdIndexBlockLocalToGlobal:     *)
(* each global index is looked up in the base table from sliceOffset on.   *)
TransformRows(localToGlobal, firstRow, lastRow, level, sliceOffset) ==
  [k \in DOMAIN BlockLocalToGlobalRange(firstRow, lastRow) |->
     LET e == BlockLocalToGlobalRange(firstRow, lastRow)[k]
     IN  [from |-> "birdIndexBlockLocalToGlobal", level |-> level,
          block |-> e.block, local |-> e.local,
          value |-> birdVertexToBaryTable(sliceOffset + localToGlobal[e.block][e.local])]]

(* What the constructor leaves: the array's size, the entries written and  *)
(* where the cursor `next` ends.                                           *)
TableOf(size, entries) ==
  [size |-> size,
   next |-> Len(entries),
   blocks |-> [l \in {4, 5} |->
                 Cardinality({entries[i].block : i \in {j \in 1..Len(entries) :
                                                          entries[j].level = l}})],
   entries |-> entries]

BlockToBirdUVTable_noPadding(localToGlobal) ==
  LET offsets4 == birdVertexToBaryTableOffsets[4 + 1]
      offsets5 == birdVertexToBaryTableOffsets[5 + 1]
      entries == CopyBase(offsets4)
                 \o TransformRows(localToGlobal, 0, 4 - 1, 4, offsets4)
                 \o TransformRows(localToGlobal, 4, 20 - 1, 5, offsets5)
  IN  TableOf(offsets4 + (4 + 16) * 45 + 1, entries)

BlockToBirdUVTable_level4SliceTwice(localToGlobal) ==
  LET offsets4 == birdVertexToBaryTableOffsets[4 + 1]
      padding == <<[from |-> "padding", level |-> 0, block |-> 0, local |-> 0,
                    value |-> <<"BaryUV16{}", 0>>]>>
      entries == CopyBase(offsets4)
                 \o TransformRows(localToGlobal, 0, 4 - 1, 4, offsets4)
                 \o TransformRows(localToGlobal, 4, 20 - 1, 5, offsets4)
                 \o padding
  IN  TableOf(offsets4 + (4 + 16) * 45 + 1, entries)

(* BlockToBirdUVTable's constructor.                                       *)
BlockToBirdUVTable(localToGlobal) ==
  LET offsets4 == birdVertexToBaryTableOffsets[4 + 1]
      offsets5 == birdVertexToBaryTableOffsets[5 + 1]
      padding == <<[from |-> "padding", level |-> 0, block |-> 0, local |-> 0,
                    value |-> <<"BaryUV16{}", 0>>]>>
      entries == CopyBase(offsets4)
                 \o TransformRows(localToGlobal, 0, 4 - 1, 4, offsets4)
                 \o TransformRows(localToGlobal, 4, 20 - 1, 5, offsets5)
                 \o padding
  IN  TableOf(offsets4 + (4 + 16) * 45 + 1, entries)

HrtxPipeline_T(p, drv) ==
  LET o == <<"P", p>>
      m_birdTable == <<"P", p, "m_birdTable">>
  IN     HrtxContext(<<"P", p, "m_ctx">>)
      \o ShaderModule(<<"P", p, "m_shaderCompress">>, drv)
      \o SingleBinding(o, "m_birdTableBinding", drv)
      \o Buffer(m_birdTable, BirdTableSize)
      \o SingleDescriptorSet(o, "m_birdTableDescriptors", drv)
      \o SingleBinding(o, "m_heightmapBinding", drv)
      \o PipelineLayout(<<"P", p, "m_pipelineLayout">>, drv)
      \o ComputePipeline(<<"P", p, "m_pipeline">>, drv)
      \o <<EffCmd(Buffer_update(m_birdTable, BirdTableSize, "m_blockToBirdUVTable"))>>

createHeightmapDescriptors_pipelineOwnedSet(m, drv) ==
  SingleDescriptorSet(<<"P", 1>>, "m_heightmapDescriptors", drv)

createHeightmapDescriptors(m, drv) ==
  SingleDescriptorSet(<<"M", m>>, "m_heightmapDescriptors", drv)

bindAndDispatch(p, heightmapDescriptors, pushConstants, groupCountX) ==
  << [op |-> "vkCmdBindDescriptorSets", res |-> <<"P", p, "m_pipelineLayout">>,
      src |-> <<>>, dst |-> <<>>,
      args |-> << <<"P", p, "m_birdTableDescriptors.m_set">>, heightmapDescriptors >>],
     [op |-> "vkCmdBindPipeline", res |-> <<"P", p, "m_pipeline">>,
      src |-> <<>>, dst |-> <<>>, args |-> <<"VK_PIPELINE_BIND_POINT_COMPUTE">>],
     [op |-> "vkCmdPushConstants", res |-> <<"P", p, "m_pipelineLayout">>,
      src |-> <<>>, dst |-> <<>>, args |-> pushConstants],
     [op |-> "vkCmdDispatch", res |-> <<>>, src |-> <<>>, dst |-> <<>>,
      args |-> <<groupCountX, 1, 1>>] >>

----------------------------------------------------------------------------
(* hrtx_map.hpp.                                                           *)
VK_DISPLACEMENT_MICROMAP_FORMAT_64_TRIANGLES_64_BYTES_NV == "64_TRIANGLES_64_BYTES"

(* The requests of the life cycle write primitiveCount as a number; the    *)
(* sizing computations take it as the uint32_t it is.                      *)
Words(create) == [create EXCEPT !.primitiveCount = U32(@)]

(* Sizes of m_baryValues and m_baryTriangles (VkDeviceSize).               *)
BaryValuesSize(create) == Mul(baryLosslessBlocks(create), U64(64), 8)

BaryTrianglesSize(create) ==
  Mul(Extend(create.primitiveCount, 8), U64(SizeofVkMicromapTriangleEXT), 8)

(* threadCount and groupCount of BaryDataVk's constructor, both int32_t.   *)
(* The 64-bit thread count is converted to int32_t; the sum that follows   *)
(* is signed, so where it exceeds INT32_MAX its value is whatever the      *)
(* build makes of the overflow: signedOverflow is "wraps" (32-bit          *)
(* two's-complement add) or "exact" (the sum kept in a wider register).    *)
SignedOverflows == {"wraps", "exact"}

(* int32_t threadCount: the 64-bit product converted to 32 bits.           *)
CompressThreadCount_vertsAtEveryLevel(create) ==
  Extend(Mul(Extend(create.primitiveCount, 8),
             microVertsPerTriangle(create.subdivisionLevel), 8), 4)

CompressThreadCount(create) ==
  LET threads ==
        IF create.subdivisionLevel > 3
        THEN Mul(U64(microTrianglesPerBlock), baryLosslessBlocks(create), 8)
        ELSE Mul(Extend(create.primitiveCount, 8),
                 microVertsPerTriangle(create.subdivisionLevel), 8)
  IN  Extend(threads, 4)

CompressGroupCount(create, signedOverflow) ==
  LET threadCount == CompressThreadCount(create)
      round == COMPRESS_WORKGROUP_SIZE - 1
      sum == Add(threadCount, U32(round), 4)
      overflows == ~IsNegative(threadCount) /\ IsNegative(sum)
  IN  IF overflows /\ signedOverflow = "exact"
      THEN Extend(Div(Add(threadCount, U64(round), 8), COMPRESS_WORKGROUP_SIZE), 4)
      ELSE SDiv(sum, COMPRESS_WORKGROUP_SIZE)

BaryDataVk_dispatchBeforeClear(m, p, create, drv) ==
  LET m_baryValues == <<"M", m, "m_baryValues">>
      m_baryTriangles == <<"M", m, "m_baryTriangles">>
      valuesSize == ToInt(BaryValuesSize(Words(create)))
      trianglesSize == ToInt(BaryTrianglesSize(Words(create)))
      pushConstants ==
        << create.textureCoordsBuffer, create.indexData,
           Address(m_baryValues), Address(m_baryTriangles),
           create.textureCoordsStride \div SizeofFloat2,
           create.primitiveCount, create.subdivisionLevel >>
  IN     createHeightmapDescriptors(m, drv)
      \o Buffer(m_baryValues, valuesSize)
      \o Buffer(m_baryTriangles, trianglesSize)
      \o [i \in 1..4 |->
            EffCmd(bindAndDispatch(p, <<"M", m, "m_heightmapDescriptors.m_set">>,
                                   pushConstants,
                                   ToInt(CompressGroupCount(Words(create), "wraps")))[i])]
      \o << EffCmd(Buffer_clear(m_baryValues, valuesSize)),
            EffCmd(Buffer_clear(m_baryTriangles, trianglesSize)),
            EffCmd(memoryBarrier({"TRANSFER"}, {"TRANSFER_WRITE"},
                                 {"COMPUTE_SHADER"}, {"SHADER_READ", "SHADER_WRITE"})) >>
      \o << EffCmd(memoryBarrier2({"COMPUTE_SHADER"}, {"SHADER_WRITE"},
                                  {"MICROMAP_BUILD"}, {"MICROMAP_READ"})) >>

BaryDataVk(m, p, create, drv) ==
  LET m_baryValues == <<"M", m, "m_baryValues">>
      m_baryTriangles == <<"M", m, "m_baryTriangles">>
      valuesSize == ToInt(BaryValuesSize(Words(create)))
      trianglesSize == ToInt(BaryTrianglesSize(Words(create)))
      pushConstants ==
        << create.textureCoordsBuffer, create.indexData,
           Address(m_baryValues), Address(m_baryTriangles),
           create.textureCoordsStride \div SizeofFloat2,
           create.primitiveCount, create.subdivisionLevel >>
  IN     createHeightmapDescriptors(m, drv)
      \o Buffer(m_baryValues, valuesSize)
      \o Buffer(m_baryTriangles, trianglesSize)
      \o << EffCmd(Buffer_clear(m_baryValues, valuesSize)),
            EffCmd(Buffer_clear(m_baryTriangles, trianglesSize)),
            EffCmd(memoryBarrier({"TRANSFER"}, {"TRANSFER_WRITE"},
                                 {"COMPUTE_SHADER"}, {"SHADER_READ", "SHADER_WRITE"})) >>
      \o [i \in 1..4 |->
            EffCmd(bindAndDispatch(p, <<"M", m, "m_heightmapDescriptors.m_set">>,
                                   pushConstants,
                                   ToInt(CompressGroupCount(Words(create), "wraps")))[i])]
      \o << EffCmd(memoryBarrier2({"COMPUTE_SHADER"}, {"SHADER_WRITE"},
                                  {"MICROMAP_BUILD"}, {"MICROMAP_READ"})) >>

Micromap(m, size, drv) ==
     Buffer(<<"M", m, "m_micromap.m_data">>, size)
  \o <<EffCreate(<<"M", m, "m_micromap.m_micromap">>,
                 DriverResult(drv, <<"M", m, "m_micromap.m_micromap">>))>>

(* BuiltMicromap's scratchSize (VkDeviceSize).                             *)
ScratchSize(buildScratchSize, scratchAlignment) ==
  align_up(MaxW(buildScratchSize, U64(4)), scratchAlignment)

Usages(create) ==
  << [count |-> create.primitiveCount,
      subdivisionLevel |-> create.subdivisionLevel,
      format |-> VK_DISPLACEMENT_MICROMAP_FORMAT_64_TRIANGLES_64_BYTES_NV] >>

BuiltMicromap(m, create, drv) ==
  LET m_micromapScratch == <<"M", m, "m_micromapScratch">>
      scratchSize == ToInt(ScratchSize(U64(drv.buildScratchSize),
                                       U64(drv.scratchAlignment)))
      buildInfo ==
        [op |-> "vkCmdBuildMicromapsEXT",
         res |-> <<"M", m, "m_micromap.m_micromap">>,
         src |-> <<>>, dst |-> <<>>,
         args |-> << Address(<<"M", m, "m_baryValues">>),
                     Address(<<"M", m, "m_baryTriangles">>),
                     Address(m_micromapScratch),
                     SizeofVkMicromapTriangleEXT,
                     Usages(create) >>]
  IN     Micromap(m, drv.micromapSize, drv)
      \o Buffer(m_micromapScratch, scratchSize)
      \o << EffCmd(buildInfo),
            EffCmd(memoryBarrier2({"MICROMAP_BUILD"}, {"MICROMAP_WRITE"},
                                  {"ACCELERATION_STRUCTURE_BUILD"},
                                  {"ACCELERATION_STRUCTURE_READ"})) >>

HrtxMap_T_uploadFirst(m, p, create, drv) ==
  LET m_biasAndScale == <<"M", m, "m_biasAndScale">>
      biasScale == <<create.heightmapBias, create.heightmapScale>>
  IN     Buffer(m_biasAndScale, SizeofFloat2)
      \o << EffCmd(Buffer_update(m_biasAndScale, SizeofFloat2, biasScale)),
            EffCmd(memoryBarrier2({"TRANSFER"}, {"TRANSFER_WRITE"},
                                  {"ACCELERATION_STRUCTURE_BUILD"},
                                  {"ACCELERATION_STRUCTURE_READ"})) >>
      \o BaryDataVk(m, p, create, drv)
      \o BuiltMicromap(m, create, drv)

HrtxMap_T_noFinalBarrier(m, p, create, drv) ==
  LET m_biasAndScale == <<"M", m, "m_biasAndScale">>
      biasScale == <<create.heightmapBias, create.heightmapScale>>
  IN     Buffer(m_biasAndScale, SizeofFloat2)
      \o BaryDataVk(m, p, create, drv)
      \o BuiltMicromap(m, create, drv)
      \o << EffCmd(Buffer_update(m_biasAndScale, SizeofFloat2, biasScale)) >>

HrtxMap_T(m, p, create, drv) ==
  LET m_biasAndScale == <<"M", m, "m_biasAndScale">>
      biasScale == <<create.heightmapBias, create.heightmapScale>>
  IN     Buffer(m_biasAndScale, SizeofFloat2)
      \o BaryDataVk(m, p, create, drv)
      \o BuiltMicromap(m, create, drv)
      \o << EffCmd(Buffer_update(m_biasAndScale, SizeofFloat2, biasScale)),
            EffCmd(memoryBarrier2({"TRANSFER"}, {"TRANSFER_WRITE"},
                                  {"ACCELERATION_STRUCTURE_BUILD"},
                                  {"ACCELERATION_STRUCTURE_READ"})) >>

----------------------------------------------------------------------------
(* Running a constructor: the effects up to and including the first one    *)
(* whose check callback throws.  The throwing member never completes; the  *)
(* members completed before it are destroyed in reverse order during       *)
(* unwinding (a DescriptorSet has no destructor: it goes with its pool).   *)
ThrowAt(effs, cb) ==
  {i \in 1..Len(effs) :
     effs[i].k = "vkCreate" /\ checkResult(cb, effs[i].result).throws}

Executed(effs, cb) ==
  IF ThrowAt(effs, cb) = {} THEN effs
  ELSE SubSeq(effs, 1, CHOOSE i \in ThrowAt(effs, cb) :
                          \A j \in ThrowAt(effs, cb) : i <= j)

IsCreation(e) == e.k \in {"createBuffer", "vkCreate", "member"}

Construct(effs, cb) ==
  LET done == Executed(effs, cb)
      threw == ThrowAt(effs, cb) # {}
      completed == IF threw THEN SubSeq(done, 1, Len(done) - 1) ELSE done
      creations == SelectSeq(completed, IsCreation)
      driverCalls == SelectSeq(done, LAMBDA e : e.k = "vkCreate")
      recorded == SelectSeq(done, LAMBDA e : e.k = "cmd")
  IN  [threw |-> threw,
       driverResults |-> [i \in 1..Len(driverCalls) |-> driverCalls[i].result],
       cbResults |->
         Flatten([i \in 1..Len(driverCalls) |->
                    checkResult(cb, driverCalls[i].result).passed]),
       created |-> [i \in 1..Len(creations) |-> creations[i].id],
       createdBuffers |->
         {[id |-> creations[i].id, size |-> creations[i].size] :
            i \in {j \in 1..Len(creations) : creations[j].k = "createBuffer"}},
       createdObjects |->
         {creations[i].id :
            i \in {j \in 1..Len(creations) : creations[j].k # "createBuffer"}},
       unwound |-> IF threw
                   THEN Reverse([i \in 1..Len(creations) |-> creations[i].id])
                   ELSE <<>>,
       commands |-> [i \in 1..Len(recorded) |-> recorded[i].c]]

Range(s) == {s[i] : i \in 1..Len(s)}

----------------------------------------------------------------------------
(* Destructors: the objects released, in C++ reverse declaration order.    *)
HrtxPipeline_T_dtor(p) ==
  << <<"P", p, "m_pipeline">>,
     <<"P", p, "m_pipelineLayout">>,
     <<"P", p, "m_heightmapBinding.m_layout">>,
     <<"P", p, "m_birdTableDescriptors.m_set">>,
     <<"P", p, "m_birdTableDescriptors.m_pool">>,
     <<"P", p, "m_birdTable">>,
     <<"P", p, "m_birdTableBinding.m_layout">>,
     <<"P", p, "m_shaderCompress">>,
     <<"P", p, "m_ctx">> >>

HrtxMap_T_dtor_declarationOrder(m) ==
  << <<"M", m, "m_biasAndScale">>,
     <<"M", m, "m_heightmapDescriptors.m_pool">>,
     <<"M", m, "m_heightmapDescriptors.m_set">>,
     <<"M", m, "m_baryValues">>,
     <<"M", m, "m_baryTriangles">>,
     <<"M", m, "m_micromap.m_data">>,
     <<"M", m, "m_micromap.m_micromap">>,
     <<"M", m, "m_micromapScratch">> >>

HrtxMap_T_dtor(m) ==
  << <<"M", m, "m_micromapScratch">>,
     <<"M", m, "m_micromap.m_micromap">>,
     <<"M", m, "m_micromap.m_data">>,
     <<"M", m, "m_baryTriangles">>,
     <<"M", m, "m_baryValues">>,
     <<"M", m, "m_heightmapDescriptors.m_set">>,
     <<"M", m, "m_heightmapDescriptors.m_pool">>,
     <<"M", m, "m_biasAndScale">> >>

----------------------------------------------------------------------------
(* Inputs the caller and the driver may supply.                            *)
VK_INDEX_TYPE_UINT32 == "VK_INDEX_TYPE_UINT32"
VK_FORMAT_R32G32_SFLOAT == "VK_FORMAT_R32G32_SFLOAT"

IndexTypes == {VK_INDEX_TYPE_UINT32, "VK_INDEX_TYPE_UINT16"}
TextureCoordsFormats == {VK_FORMAT_R32G32_SFLOAT, "VK_FORMAT_R16G16_SFLOAT"}
TextureCoordsStrides == {8, 12, 16}
PrimitiveCounts == {0, 1, 2}
SubdivisionLevels == {3, 5}
Directions == { <<"VK_FORMAT_R16G16B16A16_SFLOAT", 8>>,
                <<"VK_FORMAT_R32G32B32_SFLOAT", 12>> }

HrtxMapCreates ==
  { [indexType |-> it, indexData |-> "indices", primitiveCount |-> n,
     textureCoordsBuffer |-> "texcoords", textureCoordsFormat |-> tf,
     textureCoordsStride |-> ts,
     directionsBuffer |-> "directions", directionsFormat |-> d[1],
     directionsStride |-> d[2],
     heightmapImage |-> "heightmap", heightmapBias |-> 0, heightmapScale |-> 1,
     subdivisionLevel |-> l] :
       it \in IndexTypes, n \in PrimitiveCounts, tf \in TextureCoordsFormats,
       ts \in TextureCoordsStrides, d \in Directions, l \in SubdivisionLevels }

PipelineCreations ==
  {"m_shaderCompress", "m_birdTableBinding.m_layout", "m_birdTableDescriptors.m_pool",
   "m_birdTableDescriptors.m_set", "m_heightmapBinding.m_layout",
   "m_pipelineLayout", "m_pipeline"}

MapCreations ==
  {"m_heightmapDescriptors.m_pool", "m_heightmapDescriptors.m_set",
   "m_micromap.m_micromap"}

MicromapSizes == {128}
BuildScratchSizes == {100}
ScratchAlignments == {128}

Drivers(creations) ==
  { [fails |-> f, micromapSize |-> ms, buildScratchSize |-> ss,
     scratchAlignment |-> sa] :
       f \in {x \in SUBSET creations : Cardinality(x) <= MaxFailures},
       ms \in MicromapSizes, ss \in BuildScratchSizes, sa \in ScratchAlignments }

----------------------------------------------------------------------------
(* State.                                                                  *)
Pipelines == 1..MaxPipelines
Maps == 1..MaxMaps

NoPipeline == [state |-> "unused", checkResultCallback |-> "none"]

NoCreate == [indexType |-> "", indexData |-> "", primitiveCount |-> 0,
             textureCoordsBuffer |-> "", textureCoordsFormat |-> "",
             textureCoordsStride |-> 0, directionsBuffer |-> "",
             directionsFormat |-> "", directionsStride |-> 0,
             heightmapImage |-> "", heightmapBias |-> 0, heightmapScale |-> 0,
             subdivisionLevel |-> 0]

(* A map's members; `create` is history: the request it was built from.   *)
NoDriver == [fails |-> {}, micromapSize |-> 0, buildScratchSize |-> 0,
             scratchAlignment |-> 0]

(* A construction in progress on its own thread has the driver answers it  *)
(* will get (drv), the effects of its constructor (effs), how many of them *)
(* have happened (pc) and the commands recorded so far into its own        *)
(* command buffer (recorded).                                              *)
NoMap == [state |-> "unused", ctx |-> NULL,
          m_directionsBuffer |-> "", m_directionsFormat |-> "",
          m_directionsStride |-> 0, usages |-> <<>>, create |-> NoCreate,
          drv |-> NoDriver, effs |-> <<>>, pc |-> 0, recorded |-> <<>>]

NoDesc == [displacementBiasAndScaleFormat |-> "", displacementVectorFormat |-> "",
           displacementBiasAndScaleBuffer |-> <<>>,
           displacementBiasAndScaleStride |-> 0,
           displacementVectorBuffer |-> "", displacementVectorStride |-> 0,
           usageCountsCount |-> 0, pUsageCounts |-> <<>>, micromap |-> <<>>]

(* The optional loader fields of HrtxPipelineCreate: a null handle or      *)
(* pointer and a set one are told apart by name.  The life cycle is explored with   *)
(* the statically linked functions; LoaderPipelineCreates has every        *)
(* combination of the three fields.                                        *)
VK_NULL_HANDLE == "VK_NULL_HANDLE"

nullptr == "nullptr"

HrtxPipelineCreates ==
  [checkResultCallback : CheckResultCallbacks,
   instance : {VK_NULL_HANDLE}, getInstanceProcAddr : {nullptr}, getDeviceProcAddr : {nullptr}]

LoaderPipelineCreates ==
  [checkResultCallback : CheckResultCallbacks,
   instance : {VK_NULL_HANDLE, "instance"},
   getInstanceProcAddr : {nullptr, "vkGetInstanceProcAddr"},
   getDeviceProcAddr : {nullptr, "vkGetDeviceProcAddr"}]

NoPipelineCreate ==
  [checkResultCallback |-> "none", instance |-> VK_NULL_HANDLE,
   getInstanceProcAddr |-> nullptr, getDeviceProcAddr |-> nullptr]

(* context.hpp, VulkanTable: the default constructor takes the linked      *)
(* functions; the loading constructor calls getInstanceProcAddr for each   *)
(* instance function, then getDeviceProcAddr for each device function,     *)
(* whatever the pointers are.  invokedNull is the first null pointer it    *)
(* calls through, if any.                                                  *)
StaticVulkanTable == [table |-> "static", invokedNull |-> {}]

DynamicVulkanTable(getInstanceProcAddr, getDeviceProcAddr) ==
  [table |-> "dynamic",
   invokedNull |-> IF getInstanceProcAddr = nullptr THEN {"getInstanceProcAddr"}
                   ELSE IF getDeviceProcAddr = nullptr THEN {"getDeviceProcAddr"}
                   ELSE {}]

NoVulkanTable == [table |-> "none", invokedNull |-> {}]

(* heightmap_rtx.cpp, hrtxCreatePipeline: which constructor is called.     *)
SelectVulkanTable(create) ==
  IF \/ create.instance # VK_NULL_HANDLE
     \/ create.getInstanceProcAddr # nullptr
     \/ create.getDeviceProcAddr # nullptr
  THEN DynamicVulkanTable(create.getInstanceProcAddr, create.getDeviceProcAddr)
  ELSE StaticVulkanTable

(* What hrtxBarrierFlags stored through each out parameter: <<>> when it    *)
(* stored nothing, <<v>> when it stored v.                                 *)
NoFlags == [textureCoordsDstStageMask |-> <<>>, textureCoordsDstAccessMask |-> <<>>,
            directionsDstStageMask |-> <<>>, directionsDstAccessMask |-> <<>>,
            heightmapLayout |-> <<>>]

(* Inputs and results of the sizing computations; a result is <<>> until   *)
(* it has been computed.                                                   *)
NoTable == [size |-> 0, next |-> 0, blocks |-> <<>>, entries |-> <<>>]

NoSizing == [of |-> "none", primitiveCount |-> <<>>, subdivisionLevel |-> 0,
             signedOverflow |-> "wraps",
             buildScratchSize |-> <<>>, scratchAlignment |-> <<>>,
             microVerts |-> <<>>, blocks |-> <<>>, valuesSize |-> <<>>,
             trianglesSize |-> <<>>, threadCount |-> <<>>,
             groupCount |-> <<>>, scratchSize |-> <<>>,
             contents |-> 0, table |-> NoTable]

NoCall == [op |-> "none", handle |-> NULL, create |-> NoCreate,
           checkResultCallback |-> "none",
           returned |-> TRUE, ret |-> VK_SUCCESS,
           outWritten |-> FALSE, out |-> NULL,
           driverResults |-> <<>>, cbResults |-> <<>>,
           created |-> <<>>, released |-> <<>>,
           first |-> 1, readFreedCtx |-> FALSE, desc |-> NoDesc,
           nonNull |-> {}, flags |-> NoFlags, sizing |-> NoSizing,
           pipelineCreate |-> NoPipelineCreate, vk |-> NoVulkanTable]

Init ==
  /\ pipelines = [p \in Pipelines |-> NoPipeline]
  /\ maps = [m \in Maps |-> NoMap]
  /\ buffers = {}
  /\ objects = {}
  /\ cmd = <<>>
  /\ call = NoCall
  /\ crashed = FALSE

LivePipelines == {p \in Pipelines : pipelines[p].state = "live"}
LiveMaps == {m \in Maps : maps[m].state = "live"}
CtxAlive(p) == <<"P", p, "m_ctx">> \in objects

(* The next object a `new` expression constructs.                          *)
NextPipeline == CHOOSE p \in Pipelines :
                  /\ pipelines[p].state = "unused"
                  /\ \A q \in Pipelines : pipelines[q].state = "unused" => p <= q
NextMap == CHOOSE m \in Maps :
             /\ maps[m].state = "unused"
             /\ \A q \in Maps : maps[q].state = "unused" => m <= q

Release(ids) ==
  /\ buffers' = {b \in buffers : b.id \notin ids}
  /\ objects' = objects \ ids

----------------------------------------------------------------------------
(* heightmap_rtx.cpp: hrtxCreatePipeline.  Both branches run the same      *)
(* member initialisers; the function returns VK_SUCCESS whenever the       *)
(* constructor returns.                                                    *)
hrtxCreatePipeline(create, drv) ==
  /\ ~crashed
  /\ \E q \in Pipelines : pipelines[q].state = "unused"
  /\ LET p == NextPipeline
         cb == create.checkResultCallback
         vk == SelectVulkanTable(create)
         r == Construct(HrtxPipeline_T(p, drv), cb)
     IN  IF vk.invokedNull # {}
         THEN (* a call through a null function pointer: control is lost   *)
              (* inside the context's constructor, before any creation     *)
              /\ crashed' = TRUE
              /\ call' = [NoCall EXCEPT
                            !.op = "hrtxCreatePipeline",
                            !.checkResultCallback = cb,
                            !.pipelineCreate = create,
                            !.vk = vk,
                            !.returned = FALSE,
                            !.first = Len(cmd) + 1]
              /\ UNCHANGED <<pipelines, maps, buffers, objects, cmd>>
         ELSE
         /\ pipelines' = [pipelines EXCEPT ![p] =
                            [state |-> IF r.threw THEN "failed" ELSE "live",
                             checkResultCallback |-> cb]]
         /\ buffers' = {b \in buffers \cup r.createdBuffers : b.id \notin Range(r.unwound)}
         /\ objects' = (objects \cup r.createdObjects) \ Range(r.unwound)
         /\ cmd' = cmd \o r.commands
         /\ call' = [NoCall EXCEPT
                       !.op = "hrtxCreatePipeline",
                       !.checkResultCallback = cb,
                       !.pipelineCreate = create,
                       !.vk = vk,
                       !.returned = ~r.threw,
                       !.ret = VK_SUCCESS,
                       !.outWritten = ~r.threw,
                       !.out = IF r.threw THEN NULL ELSE p,
                       !.driverResults = r.driverResults,
                       !.cbResults = r.cbResults,
                       !.created = r.created,
                       !.released = r.unwound,
                       !.first = Len(cmd) + 1]
         /\ UNCHANGED <<maps, crashed>>

(* hrtxDestroyPipeline: delete runs ~HrtxPipeline_T.                       *)
hrtxDestroyPipeline(p) ==
  /\ ~crashed
  /\ p \in LivePipelines
  /\ pipelines' = [pipelines EXCEPT ![p].state = "destroyed"]
  /\ Release(Range(HrtxPipeline_T_dtor(p)))
  /\ call' = [NoCall EXCEPT
                !.op = "hrtxDestroyPipeline",
                !.handle = p,
                !.released = HrtxPipeline_T_dtor(p),
                !.first = Len(cmd) + 1]
  /\ UNCHANGED <<maps, cmd, crashed>>

(* hrtxBarrierFlags: each out parameter is written only when non-null.     *)
(* nonNull is the set of out parameters the caller passed non-null.        *)
BarrierFlagParams ==
  {"textureCoordsDstStageMask", "textureCoordsDstAccessMask",
   "directionsDstStageMask", "directionsDstAccessMask", "heightmapLayout"}

BarrierFlagsWritten_texcoordsGateDirections(nonNull) ==
  [textureCoordsDstStageMask |->
     IF "textureCoordsDstStageMask" \in nonNull THEN <<{"COMPUTE_SHADER"}>> ELSE <<>>,
   textureCoordsDstAccessMask |->
     IF "textureCoordsDstAccessMask" \in nonNull THEN <<{"SHADER_READ"}>> ELSE <<>>,
   directionsDstStageMask |->
     IF "directionsDstStageMask" \in nonNull THEN <<{"MICROMAP_BUILD"}>> ELSE <<>>,
   directionsDstAccessMask |->
     IF "directionsDstAccessMask" \in nonNull
     THEN IF "textureCoordsDstAccessMask" \in nonNull
          THEN <<{"MICROMAP_READ"}>> ELSE <<{"SHADER_READ"}>>
     ELSE <<>>,
   heightmapLayout |->
     IF "heightmapLayout" \in nonNull THEN <<"VK_IMAGE_LAYOUT_GENERAL">> ELSE <<>>]

BarrierFlagsWritten(nonNull) ==
  [textureCoordsDstStageMask |->
     IF "textureCoordsDstStageMask" \in nonNull THEN <<{"COMPUTE_SHADER"}>> ELSE <<>>,
   textureCoordsDstAccessMask |->
     IF "textureCoordsDstAccessMask" \in nonNull THEN <<{"SHADER_READ"}>> ELSE <<>>,
   directionsDstStageMask |->
     IF "directionsDstStageMask" \in nonNull THEN <<{"MICROMAP_BUILD"}>> ELSE <<>>,
   directionsDstAccessMask |->
     IF "directionsDstAccessMask" \in nonNull THEN <<{"MICROMAP_READ"}>> ELSE <<>>,
   heightmapLayout |->
     IF "heightmapLayout" \in nonNull THEN <<"VK_IMAGE_LAYOUT_GENERAL">> ELSE <<>>]

hrtxBarrierFlags(nonNull) ==
  /\ ~crashed
  /\ call' = [NoCall EXCEPT
                !.op = "hrtxBarrierFlags",
                !.nonNull = nonNull,
                !.flags = BarrierFlagsWritten(nonNull),
                !.first = Len(cmd) + 1]
  /\ UNCHANGED <<pipelines, maps, buffers, objects, cmd, crashed>>

(* hrtxCmdCreateMap: the checks, in the order of the code.                 *)
CmdCreateMapResult_countFirst(hrtxPipeline, create) ==
  IF hrtxPipeline = NULL THEN VK_ERROR_INITIALIZATION_FAILED
  ELSE IF create.primitiveCount = 0 THEN VK_INCOMPLETE
  ELSE IF \/ create.indexType # VK_INDEX_TYPE_UINT32
          \/ create.textureCoordsFormat # VK_FORMAT_R32G32_SFLOAT
          \/ create.textureCoordsStride % SizeofFloat2 # 0
       THEN VK_ERROR_FORMAT_NOT_SUPPORTED
  ELSE VK_SUCCESS

CmdCreateMapResult(hrtxPipeline, create) ==
  IF hrtxPipeline = NULL THEN VK_ERROR_INITIALIZATION_FAILED
  ELSE IF \/ create.indexType # VK_INDEX_TYPE_UINT32
          \/ create.textureCoordsFormat # VK_FORMAT_R32G32_SFLOAT
          \/ create.textureCoordsStride % SizeofFloat2 # 0
       THEN VK_ERROR_FORMAT_NOT_SUPPORTED
  ELSE IF create.primitiveCount = 0 THEN VK_INCOMPLETE
  ELSE VK_SUCCESS

(* The `new HrtxMap_T` expression is reached only past every early return. *)
ReachesConstruction_beforeCountCheck(ret) == ret \in {VK_SUCCESS, VK_INCOMPLETE}

ReachesConstruction(ret) == ret = VK_SUCCESS

hrtxCmdCreateMap(hrtxPipeline, create) ==
  /\ ~crashed
  /\ hrtxPipeline \in {NULL} \cup LivePipelines
  /\ LET ret == CmdCreateMapResult(hrtxPipeline, create)
     IN  IF ~ReachesConstruction(ret)
         THEN /\ call' = [NoCall EXCEPT
                            !.op = "hrtxCmdCreateMap",
                            !.handle = hrtxPipeline,
                            !.create = create,
                            !.ret = ret,
                            !.first = Len(cmd) + 1]
              /\ UNCHANGED <<pipelines, maps, buffers, objects, cmd, crashed>>
         ELSE \E drv \in Drivers(MapCreations) :
              /\ \E q \in Maps : maps[q].state = "unused"
              /\ LET m == NextMap
                     cb == pipelines[hrtxPipeline].checkResultCallback
                     r == Construct(HrtxMap_T(m, hrtxPipeline, create, drv), cb)
                 IN  /\ maps' = [maps EXCEPT ![m] =
                                   IF r.threw
                                   THEN [NoMap EXCEPT !.state = "failed"]
                                   ELSE [NoMap EXCEPT
                                           !.state = "live",
                                           !.ctx = hrtxPipeline,
                                           !.m_directionsBuffer = create.directionsBuffer,
                                           !.m_directionsFormat = create.directionsFormat,
                                           !.m_directionsStride = create.directionsStride,
                                           !.usages = Usages(create),
                                           !.create = create]]
                     /\ buffers' = {b \in buffers \cup r.createdBuffers :
                                      b.id \notin Range(r.unwound)}
                     /\ objects' = (objects \cup r.createdObjects) \ Range(r.unwound)
                     /\ cmd' = cmd \o r.commands
                     /\ call' = [NoCall EXCEPT
                                   !.op = "hrtxCmdCreateMap",
                                   !.handle = hrtxPipeline,
                                   !.create = create,
                                   !.checkResultCallback = cb,
                                   !.returned = ~r.threw,
                                   !.ret = ret,
                                   !.outWritten = ~r.threw,
                                   !.out = IF r.threw THEN NULL ELSE m,
                                   !.driverResults = r.driverResults,
                                   !.cbResults = r.cbResults,
                                   !.created = r.created,
                                   !.released = r.unwound,
                                   !.first = Len(cmd) + 1]
                     /\ UNCHANGED <<pipelines, crashed>>

(* hrtxCmdCreateMap called from several threads on one pipeline, each     *)
(* with its own command buffer: a call begins past the early returns,      *)
(* then its constructor's effects happen one at a time, interleaved with   *)
(* those of the other calls.                                               *)
ConstructingMaps == {m \in Maps : maps[m].state = "constructing"}

BeginCmdCreateMap(hrtxPipeline, create, drv) ==
  /\ ~crashed
  /\ hrtxPipeline \in LivePipelines
  /\ ReachesConstruction(CmdCreateMapResult(hrtxPipeline, create))
  /\ \E q \in Maps : maps[q].state = "unused"
  /\ LET m == NextMap
     IN  maps' = [maps EXCEPT ![m] =
                    [NoMap EXCEPT !.state = "constructing",
                                  !.ctx = hrtxPipeline,
                                  !.create = create,
                                  !.drv = drv,
                                  !.effs = HrtxMap_T(m, hrtxPipeline, create, drv)]]
  /\ call' = [NoCall EXCEPT !.op = "hrtxCmdCreateMap",
                            !.handle = hrtxPipeline,
                            !.create = create,
                            !.returned = FALSE,
                            !.first = Len(cmd) + 1]
  /\ UNCHANGED <<pipelines, buffers, objects, cmd, crashed>>

(* The ids of the creations among a construction's first n effects.        *)
CreatedSoFar(m, n) ==
  {maps[m].effs[i].id : i \in {j \in 1..n : IsCreation(maps[m].effs[j])}}

StepCmdCreateMap(m) ==
  /\ ~crashed
  /\ m \in ConstructingMaps
  /\ LET e == maps[m].effs[maps[m].pc + 1]
         create == maps[m].create
         cb == pipelines[maps[m].ctx].checkResultCallback
         throws == e.k = "vkCreate" /\ checkResult(cb, e.result).throws
         last == maps[m].pc + 1 = Len(maps[m].effs)
     IN  IF throws
         THEN /\ maps' = [maps EXCEPT ![m].state = "failed", ![m].pc = @ + 1]
              /\ buffers' = {b \in buffers : b.id \notin CreatedSoFar(m, maps[m].pc)}
              /\ objects' = objects \ CreatedSoFar(m, maps[m].pc)
         ELSE /\ maps' = [maps EXCEPT
                            ![m].pc = @ + 1,
                            ![m].recorded = IF e.k = "cmd" THEN Append(@, e.c) ELSE @,
                            ![m].state = IF last THEN "live" ELSE @,
                            ![m].m_directionsBuffer =
                               IF last THEN create.directionsBuffer ELSE @,
                            ![m].m_directionsFormat =
                               IF last THEN create.directionsFormat ELSE @,
                            ![m].m_directionsStride =
                               IF last THEN create.directionsStride ELSE @,
                            ![m].usages = IF last THEN Usages(create) ELSE @]
              /\ buffers' = IF e.k = "createBuffer"
                            THEN buffers \cup {[id |-> e.id, size |-> e.size]}
                            ELSE buffers
              /\ objects' = IF e.k \in {"vkCreate", "member"}
                            THEN objects \cup {e.id}
                            ELSE objects
  /\ UNCHANGED <<pipelines, cmd, call, crashed>>

(* What a read through a map member's `const HrtxContext& m_ctx` finds:    *)
(* the context itself while the pipeline lives; after ~HrtxPipeline_T the  *)
(* reference dangles, and the read either still finds the old bytes,       *)
(* finds other bytes, or faults.                                           *)
CtxReadOutcomes(m) ==
  IF CtxAlive(maps[m].ctx) THEN {"valid"} ELSE {"stale", "garbage", "fault"}

(* HrtxMap_T::descriptor; Buffer::address reads m_ctx.vk and m_ctx.device. *)
HrtxMap_T_descriptor(m, ctxRead) ==
  [displacementBiasAndScaleFormat |-> VK_FORMAT_R32G32_SFLOAT,
   displacementVectorFormat |-> maps[m].m_directionsFormat,
   displacementBiasAndScaleBuffer |->
     IF ctxRead = "garbage" THEN Address(<<"?">>)
     ELSE Address(<<"M", m, "m_biasAndScale">>),
   displacementBiasAndScaleStride |-> 0,
   displacementVectorBuffer |-> maps[m].m_directionsBuffer,
   displacementVectorStride |-> maps[m].m_directionsStride,
   usageCountsCount |-> Len(maps[m].usages),
   pUsageCounts |-> maps[m].usages,
   micromap |-> <<"M", m, "m_micromap.m_micromap">>]

hrtxMapDesc(m) ==
  /\ ~crashed
  /\ m \in LiveMaps
  /\ \E ctxRead \in CtxReadOutcomes(m) :
       /\ crashed' = (ctxRead = "fault")
       /\ call' = [NoCall EXCEPT
                     !.op = "hrtxMapDesc",
                     !.handle = m,
                     !.returned = (ctxRead # "fault"),
                     !.readFreedCtx = ~CtxAlive(maps[m].ctx),
                     !.desc = IF ctxRead = "fault" THEN NoDesc
                              ELSE HrtxMap_T_descriptor(m, ctxRead),
                     !.first = Len(cmd) + 1]
  /\ UNCHANGED <<pipelines, maps, buffers, objects, cmd>>

(* hrtxDestroyMap: delete runs ~HrtxMap_T; ~Buffer reads m_ctx.allocator   *)
(* and ~Micromap reads m_ctx.vk.  With other bytes in place of the         *)
(* context the calls through it go astray.                                 *)
hrtxDestroyMap(m) ==
  /\ ~crashed
  /\ m \in LiveMaps
  /\ \E ctxRead \in CtxReadOutcomes(m) :
       /\ crashed' = (ctxRead \in {"garbage", "fault"})
       /\ IF ctxRead \in {"valid", "stale"}
          THEN /\ maps' = [maps EXCEPT ![m] = [NoMap EXCEPT !.state = "destroyed"]]
               /\ Release(Range(HrtxMap_T_dtor(m)))
          ELSE UNCHANGED <<maps, buffers, objects>>
       /\ call' = [NoCall EXCEPT
                     !.op = "hrtxDestroyMap",
                     !.handle = m,
                     !.returned = (ctxRead \in {"valid", "stale"}),
                     !.readFreedCtx = ~CtxAlive(maps[m].ctx),
                     !.released = IF ctxRead \in {"valid", "stale"}
                                  THEN HrtxMap_T_dtor(m) ELSE <<>>,
                     !.first = Len(cmd) + 1]
  /\ UNCHANGED <<pipelines, cmd>>

----------------------------------------------------------------------------
(* The sizing computations on their own, each applied to the inputs held   *)
(* in call.sizing and recording its result there.                          *)
SizingCreate ==
  [NoCreate EXCEPT !.primitiveCount = call.sizing.primitiveCount,
                   !.subdivisionLevel = call.sizing.subdivisionLevel]

Eval_microVertsPerTriangle ==
  /\ call.sizing.of = "BaryDataVk"
  /\ call.sizing.microVerts = <<>>
  /\ call' = [call EXCEPT !.sizing.microVerts =
                            microVertsPerTriangle(call.sizing.subdivisionLevel)]
  /\ UNCHANGED <<pipelines, maps, buffers, objects, cmd, crashed>>

Eval_baryLosslessBlocks ==
  /\ call.sizing.of = "BaryDataVk"
  /\ call.sizing.blocks = <<>>
  /\ call' = [call EXCEPT !.sizing.blocks = baryLosslessBlocks(SizingCreate)]
  /\ UNCHANGED <<pipelines, maps, buffers, objects, cmd, crashed>>

Eval_BaryDataVk ==
  /\ call.sizing.of = "BaryDataVk"
  /\ call.sizing.groupCount = <<>>
  /\ call' = [call EXCEPT
                !.sizing.valuesSize = BaryValuesSize(SizingCreate),
                !.sizing.trianglesSize = BaryTrianglesSize(SizingCreate),
                !.sizing.threadCount = CompressThreadCount(SizingCreate),
                !.sizing.groupCount =
                   CompressGroupCount(SizingCreate, call.sizing.signedOverflow)]
  /\ UNCHANGED <<pipelines, maps, buffers, objects, cmd, crashed>>

Eval_BuiltMicromap ==
  /\ call.sizing.of = "BuiltMicromap"
  /\ call.sizing.scratchSize = <<>>
  /\ call' = [call EXCEPT !.sizing.scratchSize =
                            ScratchSize(call.sizing.buildScratchSize,
                                        call.sizing.scratchAlignment)]
  /\ UNCHANGED <<pipelines, maps, buffers, objects, cmd, crashed>>

Eval_BlockToBirdUVTable ==
  /\ call.sizing.of = "BlockToBirdUVTable"
  /\ call.sizing.table = NoTable
  /\ call' = [call EXCEPT !.sizing.table =
                  BlockToBirdUVTable(birdIndexBlockLocalToGlobal(call.sizing.contents))]
  /\ UNCHANGED <<pipelines, maps, buffers, objects, cmd, crashed>>

----------------------------------------------------------------------------
(* The application's life cycle: pipelines and maps come and go; the map   *)
(* requests are a few representative ones.                                 *)
SomeMapCreates ==
  { c \in HrtxMapCreates :
      \/ /\ c.indexType = VK_INDEX_TYPE_UINT32
         /\ c.textureCoordsFormat = VK_FORMAT_R32G32_SFLOAT
         /\ c.textureCoordsStride = 8
         /\ <<c.primitiveCount, c.subdivisionLevel, c.directionsStride>>
              \in {<<2, 5, 8>>, <<1, 3, 12>>, <<0, 3, 8>>}
      \/ /\ c.indexType # VK_INDEX_TYPE_UINT32
         /\ c.textureCoordsFormat = VK_FORMAT_R32G32_SFLOAT
         /\ c.textureCoordsStride = 12
         /\ <<c.primitiveCount, c.subdivisionLevel, c.directionsStride>> = <<0, 5, 8>> }

Next ==
  \/ \E create \in HrtxPipelineCreates, drv \in Drivers(PipelineCreations) :
       hrtxCreatePipeline(create, drv)
  \/ \E p \in Pipelines : hrtxDestroyPipeline(p)
  \/ \E hp \in {NULL} \cup Pipelines, create \in SomeMapCreates :
       hrtxCmdCreateMap(hp, create)
  \/ \E m \in Maps : hrtxMapDesc(m)
  \/ \E m \in Maps : hrtxDestroyMap(m)

Spec == Init /\ [][Next]_vars

(* Every request a caller can make of the first hrtxCmdCreateMap after     *)
(* pipeline creation.                                                      *)
NextRequests ==
  \/ \E create \in HrtxPipelineCreates, drv \in Drivers({}) :
       /\ call.op = "none"
       /\ hrtxCreatePipeline(create, drv)
  \/ \E hp \in {NULL} \cup Pipelines, create \in HrtxMapCreates :
       /\ call.op \in {"none", "hrtxCreatePipeline"}
       /\ hrtxCmdCreateMap(hp, create)

SpecRequests == Init /\ [][NextRequests]_vars

(* hrtxBarrierFlags with every combination of null and non-null out        *)
(* parameters, before and after the first pipeline and the first map.      *)
NextBarrierFlags ==
  \/ \E nonNull \in SUBSET BarrierFlagParams : hrtxBarrierFlags(nonNull)
  \/ \E create \in HrtxPipelineCreates, drv \in Drivers({}) :
       /\ \A p \in Pipelines : pipelines[p].state = "unused"
       /\ hrtxCreatePipeline(create, drv)
  \/ \E hp \in Pipelines, create \in SomeMapCreates :
       /\ \A m \in Maps : maps[m].state = "unused"
       /\ hrtxCmdCreateMap(hp, create)

SpecBarrierFlags == Init /\ [][NextBarrierFlags]_vars

(* One pipeline, then map constructions from it on concurrent threads.     *)
InterleavedMapCreates ==
  { c \in SomeMapCreates : ReachesConstruction(CmdCreateMapResult(1, c)) }

NextInterleaved ==
  \/ \E create \in HrtxPipelineCreates, drv \in Drivers({}) :
       /\ \A p \in Pipelines : pipelines[p].state = "unused"
       /\ hrtxCreatePipeline(create, drv)
  \/ \E hp \in Pipelines, create \in InterleavedMapCreates,
        drv \in Drivers({"m_micromap.m_micromap"}) :
       BeginCmdCreateMap(hp, create, drv)
  \/ \E m \in Maps : StepCmdCreateMap(m)

SpecInterleaved == Init /\ [][NextInterleaved]_vars

(* Requests that pass the checks of hrtxCmdCreateMap, with each value of   *)
(* the uint32_t subdivisionLevel field from 0 to two past the deepest      *)
(* level the address table covers.                                         *)
RequestedLevels == 0..7

LevelMapCreates ==
  { [c EXCEPT !.subdivisionLevel = l] : c \in InterleavedMapCreates, l \in RequestedLevels }

NextLevels ==
  \/ \E create \in HrtxPipelineCreates, drv \in Drivers({}) :
       /\ call.op = "none"
       /\ hrtxCreatePipeline(create, drv)
  \/ \E hp \in Pipelines, create \in LevelMapCreates :
       /\ call.op = "hrtxCreatePipeline"
       /\ hrtxCmdCreateMap(hp, create)

SpecLevels == Init /\ [][NextLevels]_vars

(* Pipelines created with every combination of the loader fields, used    *)
(* for one map and destroyed.                                              *)
NextLoader ==
  \/ \E create \in LoaderPipelineCreates, drv \in Drivers(PipelineCreations) :
       hrtxCreatePipeline(create, drv)
  \/ \E hp \in Pipelines, create \in InterleavedMapCreates :
       /\ call.op = "hrtxCreatePipeline"
       /\ hrtxCmdCreateMap(hp, create)
  \/ \E p \in Pipelines : hrtxDestroyPipeline(p)

SpecLoader == Init /\ [][NextLoader]_vars

(* The sizing computations over 32-bit primitive counts, the subdivision   *)
(* levels 0..5 and 64-bit driver-reported scratch sizes and alignments.    *)
SizingPrimitiveCounts ==
  { U32(0), U32(1), U32(2), U32(10), U32(3000000), U32(11930464),
    <<0, 0, 0, 1>>, <<0, 0, 0, 16>>, <<0, 0, 0, 128>>, <<255, 255, 255, 255>> }

SizingLevels == 0..5

SizingScratchSizes ==
  { U64(0), U64(1), U64(4), U64(5), U64(100), U64(128), U64(129), U64(65537),
    <<0, 0, 0, 0, 1, 0, 0, 0>>, <<1, 0, 0, 0, 1, 0, 0, 0>>,
    <<0, 255, 255, 255, 255, 255, 255, 255>>,
    <<255, 255, 255, 255, 255, 255, 255, 255>> }

SizingAlignments == { U64(1), U64(2), U64(4), U64(128), U64(256), U64(65536) }

SizingInputs ==
  { [NoSizing EXCEPT !.of = "BaryDataVk", !.primitiveCount = n,
                     !.subdivisionLevel = l, !.signedOverflow = o] :
      n \in SizingPrimitiveCounts, l \in SizingLevels, o \in SignedOverflows }
  \cup
  { [NoSizing EXCEPT !.of = "BuiltMicromap", !.buildScratchSize = size,
                     !.scratchAlignment = alignment] :
      size \in SizingScratchSizes, alignment \in SizingAlignments }
  \cup
  { [NoSizing EXCEPT !.of = "BlockToBirdUVTable", !.contents = contents] :
      contents \in BirdIndexContents }

InitSizing ==
  /\ pipelines = [p \in Pipelines |-> NoPipeline]
  /\ maps = [m \in Maps |-> NoMap]
  /\ buffers = {}
  /\ objects = {}
  /\ cmd = <<>>
  /\ call \in {[NoCall EXCEPT !.op = "sizing", !.sizing = sizing] : sizing \in SizingInputs}
  /\ crashed = FALSE

NextSizing ==
  \/ Eval_microVertsPerTriangle
  \/ Eval_baryLosslessBlocks
  \/ Eval_BaryDataVk
  \/ Eval_BuiltMicromap
  \/ Eval_BlockToBirdUVTable

SpecSizing == InitSizing /\ [][NextSizing]_vars

----------------------------------------------------------------------------
(* Vocabulary of the properties.                                           *)

(* The commands the most recent call recorded.                             *)
Seg == SubSeq(cmd, call.first, Len(cmd))

At(S, op) == {i \in 1..Len(S) : S[i].op = op}

Writes(S, id) ==
  {i \in 1..Len(S) :
     /\ S[i].op \in {"vkCmdFillBuffer", "vkCmdUpdateBuffer", "vkCmdBuildMicromapsEXT"}
     /\ S[i].res = id}

Barriers(S, srcStage, srcAccess, dstStage, dstAccess) ==
  {i \in 1..Len(S) :
     /\ S[i].op \in {"vkCmdPipelineBarrier", "vkCmdPipelineBarrier2"}
     /\ srcStage \subseteq S[i].src[1] /\ srcAccess \subseteq S[i].src[2]
     /\ dstStage \subseteq S[i].dst[1] /\ dstAccess \subseteq S[i].dst[2]}

SizeOf(id) == (CHOOSE b \in buffers : b.id = id).size

FullZeroFills(S, id) ==
  {i \in At(S, "vkCmdFillBuffer") :
     S[i].res = id /\ S[i].args = <<0, SizeOf(id), 0>>}

CreatedMap ==
  /\ call.op = "hrtxCmdCreateMap"
  /\ call.returned
  /\ call.ret = VK_SUCCESS

SupportedFormats(create) ==
  /\ create.indexType = VK_INDEX_TYPE_UINT32
  /\ create.textureCoordsFormat = VK_FORMAT_R32G32_SFLOAT
  /\ create.textureCoordsStride % 8 = 0

Failure(results) == \E i \in 1..Len(results) : results[i] < 0

Before(I, J) == \A i \in I, j \in J : i < j

----------------------------------------------------------------------------
(* C1 (as stated): in every successful hrtxCmdCreateMap the bias/scale     *)
(* upload is recorded before the compression clears and dispatch, which    *)
(* are recorded before the micromap build command.                         *)
C1_UploadThenCompressThenBuild ==
  CreatedMap =>
    LET uploads == Writes(Seg, <<"M", call.out, "m_biasAndScale">>)
        compress == At(Seg, "vkCmdFillBuffer") \cup At(Seg, "vkCmdDispatch")
        builds == At(Seg, "vkCmdBuildMicromapsEXT")
    IN  /\ uploads # {} /\ compress # {} /\ builds # {}
        /\ Before(uploads, compress)
        /\ Before(compress, builds)

(* C1 (amended): in every successful hrtxCmdCreateMap the bias/scale       *)
(* buffer is the first buffer allocated, but the commands are recorded in  *)
(* the order compression clears and dispatch, micromap build, bias/scale   *)
(* upload: the upload is recorded after the build command, not before the  *)
(* compression.                                                            *)
C1_CompressThenBuildThenUpload ==
  CreatedMap =>
    LET uploads == Writes(Seg, <<"M", call.out, "m_biasAndScale">>)
        compress == At(Seg, "vkCmdFillBuffer") \cup At(Seg, "vkCmdDispatch")
        builds == At(Seg, "vkCmdBuildMicromapsEXT")
    IN  /\ uploads # {} /\ compress # {} /\ builds # {}
        /\ call.created[1] = <<"M", call.out, "m_biasAndScale">>
        /\ Before(compress, builds)
        /\ Before(builds, uploads)

C1_Witness ==
  /\ CreatedMap
  /\ At(Seg, "vkCmdBuildMicromapsEXT") # {}
  /\ Writes(Seg, <<"M", call.out, "m_biasAndScale">>) # {}

(* C2: in every successful map construction the full-range zero fills of   *)
(* the value buffer and of the triangle-descriptor buffer are recorded      *)
(* before the compute dispatch, a barrier from transfer write to compute    *)
(* shader read/write lies after the last fill and before the dispatch, and  *)
(* the dispatch is recorded exactly once.                                   *)
C2_ClearsBarrierDispatch ==
  CreatedMap =>
    LET values == FullZeroFills(Seg, <<"M", call.out, "m_baryValues">>)
        triangles == FullZeroFills(Seg, <<"M", call.out, "m_baryTriangles">>)
        fills == At(Seg, "vkCmdFillBuffer")
        dispatches == At(Seg, "vkCmdDispatch")
        barriers == Barriers(Seg, {"TRANSFER"}, {"TRANSFER_WRITE"},
                             {"COMPUTE_SHADER"}, {"SHADER_READ", "SHADER_WRITE"})
    IN  /\ values # {} /\ triangles # {}
        /\ Cardinality(dispatches) = 1
        /\ Before(fills, dispatches)
        /\ \E b \in barriers : Before(fills, {b}) /\ Before({b}, dispatches)

C2_Witness ==
  /\ CreatedMap
  /\ Cardinality(At(Seg, "vkCmdFillBuffer")) = 2
  /\ At(Seg, "vkCmdDispatch") # {}
  /\ call.create.subdivisionLevel = 5

(* C3: in every successful map construction a barrier from compute shader   *)
(* write to micromap-build read is recorded after the dispatch and before   *)
(* the micromap build command; the build command is recorded exactly once   *)
(* and its data sources are the value buffer and the triangle-descriptor    *)
(* buffer whose addresses the dispatch's push constants carry.              *)
C3_DispatchBarrierBuild ==
  CreatedMap =>
    LET dispatches == At(Seg, "vkCmdDispatch")
        builds == At(Seg, "vkCmdBuildMicromapsEXT")
        pushes == At(Seg, "vkCmdPushConstants")
        barriers == Barriers(Seg, {"COMPUTE_SHADER"}, {"SHADER_WRITE"},
                             {"MICROMAP_BUILD"}, {"MICROMAP_READ"})
    IN  /\ Cardinality(builds) = 1
        /\ dispatches # {}
        /\ \E b \in barriers : Before(dispatches, {b}) /\ Before({b}, builds)
        /\ \A i \in builds, j \in pushes :
             /\ j < i
             /\ Seg[i].args[1] = Seg[j].args[3]
             /\ Seg[i].args[2] = Seg[j].args[4]
             /\ Seg[i].args[1] = Address(<<"M", call.out, "m_baryValues">>)
             /\ Seg[i].args[2] = Address(<<"M", call.out, "m_baryTriangles">>)

C3_Witness ==
  /\ CreatedMap
  /\ At(Seg, "vkCmdPushConstants") # {}
  /\ At(Seg, "vkCmdBuildMicromapsEXT") # {}
  /\ call.create.primitiveCount = 2

(* C4: when hrtxCmdCreateMap returns success, each resource the descriptor  *)
(* references that construction wrote (the built micromap, the bias/scale   *)
(* buffer) has, after its last write in the command stream, a barrier from  *)
(* the writing stage/access to acceleration-structure-build read, and no    *)
(* write to it follows that barrier.                                        *)
C4_WrittenOutputsHaveBarriers ==
  CreatedMap =>
    LET desc == HrtxMap_T_descriptor(call.out, "valid")
        micromapWrites == Writes(cmd, desc.micromap)
        biasScaleWrites ==
          {i \in 1..Len(cmd) :
             /\ i \in Writes(cmd, cmd[i].res)
             /\ Address(cmd[i].res) = desc.displacementBiasAndScaleBuffer}
        afterBuild == Barriers(cmd, {"MICROMAP_BUILD"}, {"MICROMAP_WRITE"},
                               {"ACCELERATION_STRUCTURE_BUILD"},
                               {"ACCELERATION_STRUCTURE_READ"})
        afterTransfer == Barriers(cmd, {"TRANSFER"}, {"TRANSFER_WRITE"},
                                  {"ACCELERATION_STRUCTURE_BUILD"},
                                  {"ACCELERATION_STRUCTURE_READ"})
    IN  /\ micromapWrites # {} /\ biasScaleWrites # {}
        /\ \E b \in afterBuild : Before(micromapWrites, {b})
        /\ \E b \in afterTransfer : Before(biasScaleWrites, {b})

C4_Witness ==
  /\ CreatedMap
  /\ call.out = 2
  /\ Writes(cmd, <<"M", 2, "m_micromap.m_micromap">>) # {}
  /\ Writes(cmd, <<"M", 2, "m_biasAndScale">>) # {}

C6_ZeroPrimitivesIsAnError ==
  ( /\ call.op = "hrtxCmdCreateMap"
    /\ call.handle # NULL
    /\ SupportedFormats(call.create)
    /\ call.create.primitiveCount = 0 )
  => /\ call.returned
     /\ call.ret < 0
     /\ call.ret \notin {VK_SUCCESS, VK_ERROR_FORMAT_NOT_SUPPORTED,
                         VK_ERROR_INITIALIZATION_FAILED}
     /\ At(Seg, "vkCmdDispatch") = {}

(* C7: a non-success return of hrtxCmdCreateMap leaves the state as it was: *)
(* no createBuffer call, no recorded command, no driver object, no map, and *)
(* the caller's *hrtxMap is not written.                                    *)
C7_FailedCreateChangesNothing ==
  [][ ( /\ call'.op = "hrtxCmdCreateMap"
        /\ call'.returned
        /\ call'.ret # VK_SUCCESS )
      => /\ UNCHANGED <<buffers, objects, cmd, maps, pipelines>>
         /\ ~call'.outWritten
         /\ call'.created = <<>>
         /\ call'.driverResults = <<>> ]_vars

C7_Witness ==
  /\ call.op = "hrtxCmdCreateMap"
  /\ call.returned
  /\ call.ret = VK_ERROR_FORMAT_NOT_SUPPORTED
  /\ LiveMaps # {}
  /\ cmd # <<>>

(* C8: after hrtxDestroyPipeline, hrtxMapDesc and hrtxDestroyMap on a map   *)
(* built from that pipeline never read state owned by the destroyed         *)
(* pipeline.                                                                *)
C8_MapNeverReadsDestroyedPipeline ==
  call.op \in {"hrtxMapDesc", "hrtxDestroyMap"} => ~call.readFreedCtx

(* C9 (as stated): when a driver object creation during hrtxCreatePipeline  *)
(* reports a failure, hrtxCreatePipeline returns an error, everything       *)
(* created so far is torn down and no handle is handed to the caller.       *)
C9_FailureYieldsErrorAndNoPipeline ==
  ( call.op = "hrtxCreatePipeline" /\ Failure(call.driverResults) )
  => /\ call.returned
     /\ call.ret < 0
     /\ ~call.outWritten
     /\ Range(call.created) = Range(call.released)

(* C9 (amended): when a driver object creation during hrtxCreatePipeline    *)
(* reports a failure, the failure is surfaced only through the check        *)
(* callback.  If the callback throws, construction unwinds: every member    *)
(* created so far is released, no handle is written and the call does not   *)
(* return.  Otherwise (no callback, or one that returns) construction runs  *)
(* all its steps, hrtxCreatePipeline returns VK_SUCCESS and hands the       *)
(* caller the handle of a pipeline that holds the failed object.            *)
C9_FailureSurfacesThroughCallbackOnly ==
  ( call.op = "hrtxCreatePipeline" /\ Failure(call.driverResults) )
  => IF call.checkResultCallback = "throws"
     THEN /\ ~call.returned
          /\ ~call.outWritten
          /\ Range(call.created) = Range(call.released)
          /\ \A id \in Range(call.created) :
               id \notin objects /\ \A b \in buffers : b.id # id
          /\ \A p \in LivePipelines : \A id \in Range(call.created) : id[2] # p
     ELSE /\ call.returned
          /\ call.ret = VK_SUCCESS
          /\ call.outWritten
          /\ call.out \in LivePipelines
          /\ call.released = <<>>
          /\ Len(call.driverResults) = Cardinality(PipelineCreations)
          /\ \A id \in Range(call.created) :
               id \in objects \/ \E b \in buffers : b.id = id

C9_Witness ==
  /\ call.op = "hrtxCreatePipeline"
  /\ Failure(call.driverResults)
  /\ call.checkResultCallback = "throws"
  /\ Len(call.released) >= 3

(* C10: every VkResult of an internal creation call is passed exactly once  *)
(* to the check callback when one was supplied; when none was supplied the  *)
(* result is dropped, construction continues with the remaining steps and   *)
(* the public create function returns success.                              *)
C10_ResultsReachCallbackOnce ==
  ( call.op \in {"hrtxCreatePipeline", "hrtxCmdCreateMap"} /\ call.created # <<>> )
  => IF call.checkResultCallback # "none"
     THEN call.cbResults = call.driverResults
     ELSE /\ call.cbResults = <<>>
          /\ call.returned
          /\ call.ret = VK_SUCCESS
          /\ call.outWritten
          /\ Len(call.driverResults) =
               IF call.op = "hrtxCreatePipeline"
               THEN Cardinality(PipelineCreations)
               ELSE Cardinality(MapCreations)

C10_Witness ==
  /\ call.op = "hrtxCmdCreateMap"
  /\ call.checkResultCallback = "returns"
  /\ Failure(call.driverResults)
  /\ Len(call.cbResults) = 3

(* C11: hrtxCreatePipeline records, after the address-table upload, a       *)
(* barrier from transfer write to the compute shader's read of the table,   *)
(* so that the commands it leaves in cmd already order the upload before    *)
(* any later dispatch.                                                      *)
C11_TableUploadHasBarrier ==
  ( call.op = "hrtxCreatePipeline" /\ call.returned ) =>
    LET uploads == Writes(Seg, <<"P", call.out, "m_birdTable">>)
        barriers ==
          {i \in 1..Len(Seg) :
             /\ Seg[i].op \in {"vkCmdPipelineBarrier", "vkCmdPipelineBarrier2"}
             /\ "TRANSFER" \in Seg[i].src[1]
             /\ "TRANSFER_WRITE" \in Seg[i].src[2]
             /\ "COMPUTE_SHADER" \in Seg[i].dst[1]
             /\ Seg[i].dst[2] \cap {"SHADER_READ", "UNIFORM_READ"} # {}}
    IN  /\ uploads # {}
        /\ \E b \in barriers : Before(uploads, {b})

(* C12: over every sequence of create and destroy calls, a buffer obtained  *)
(* from createBuffer leaves the set of live buffers only at the destruction *)
(* of the pipeline or map that owns it (so the build scratch buffer lives   *)
(* until hrtxDestroyMap), no buffer is released twice, and after            *)
(* hrtxDestroyMap the map's bias/scale, value, triangle-descriptor,         *)
(* micromap-storage and scratch buffers and its micromap object are all     *)
(* released.                                                                *)
C12_BuffersReleasedOnceAtOwnerDestruction ==
  [][ /\ \A b \in buffers \ buffers' :
           /\ call'.op = (IF b.id[1] = "M" THEN "hrtxDestroyMap"
                                           ELSE "hrtxDestroyPipeline")
           /\ call'.handle = b.id[2]
           /\ Cardinality({i \in 1..Len(call'.released) :
                             call'.released[i] = b.id}) = 1
      /\ call'.op = "hrtxDestroyMap" =>
           /\ \A b \in buffers' : ~(b.id[1] = "M" /\ b.id[2] = call'.handle)
           /\ <<"M", call'.handle, "m_micromap.m_micromap">> \notin objects'
           /\ \A name \in {"m_biasAndScale", "m_baryValues", "m_baryTriangles",
                           "m_micromap.m_data", "m_micromapScratch"} :
                <<"M", call'.handle, name>> \in Range(call'.released) ]_vars

(* C13: for every successfully created map, hrtxMapDesc returns a           *)
(* descriptor with exactly one usage record {count = the request's          *)
(* primitiveCount, subdivisionLevel = the request's, format =               *)
(* 64-triangles-64-bytes}, the request's direction buffer, format and       *)
(* stride, bias/scale stride 0 and the map's built micromap; a repeated     *)
(* call returns the same values, and no call changes any state of the map.  *)
C13_DescriptorMatchesRequest ==
  [][ call'.op = "hrtxMapDesc" =>
        LET m == call'.handle
            d == call'.desc
            request == maps[m].create
        IN  /\ call'.returned
            /\ d.usageCountsCount = 1
            /\ d.pUsageCounts =
                 << [count |-> request.primitiveCount,
                     subdivisionLevel |-> request.subdivisionLevel,
                     format |-> VK_DISPLACEMENT_MICROMAP_FORMAT_64_TRIANGLES_64_BYTES_NV] >>
            /\ d.displacementVectorBuffer = request.directionsBuffer
            /\ d.displacementVectorFormat = request.directionsFormat
            /\ d.displacementVectorStride = request.directionsStride
            /\ d.displacementBiasAndScaleStride = 0
            /\ d.micromap = <<"M", m, "m_micromap.m_micromap">>
            /\ (call.op = "hrtxMapDesc" /\ call.handle = m) => d = call.desc
            /\ UNCHANGED <<pipelines, maps, buffers, objects, cmd>> ]_vars

(* C14: hrtxBarrierFlags, for every combination of null and non-null out    *)
(* parameters and in every state, stores nothing through the null ones and  *)
(* stores through each non-null one its fixed value (texcoords: compute     *)
(* shader stage, shader read; directions: micromap build stage, micromap    *)
(* read; heightmap: general layout).  The texcoord stage is the stage of    *)
(* the pipeline bound for a map construction's dispatch, and the texcoord   *)
(* stage and access lie within the destination of the barrier the           *)
(* construction records before that dispatch.                               *)
C14_BarrierFlagsFixed ==
  call.op = "hrtxBarrierFlags" =>
    LET f == call.flags
        written(n) == n \in call.nonNull
    IN  /\ call.returned
        /\ \A n \in BarrierFlagParams \ call.nonNull : f[n] = <<>>
        /\ written("textureCoordsDstStageMask") =>
             f.textureCoordsDstStageMask = <<{"COMPUTE_SHADER"}>>
        /\ written("textureCoordsDstAccessMask") =>
             f.textureCoordsDstAccessMask = <<{"SHADER_READ"}>>
        /\ written("directionsDstStageMask") =>
             f.directionsDstStageMask = <<{"MICROMAP_BUILD"}>>
        /\ written("directionsDstAccessMask") =>
             f.directionsDstAccessMask = <<{"MICROMAP_READ"}>>
        /\ written("heightmapLayout") =>
             f.heightmapLayout = <<"VK_IMAGE_LAYOUT_GENERAL">>
        /\ ( written("textureCoordsDstStageMask")
             /\ written("textureCoordsDstAccessMask") ) =>
             \A j \in At(cmd, "vkCmdDispatch") :
               /\ \E i \in At(cmd, "vkCmdBindPipeline") :
                    /\ i < j
                    /\ cmd[i].args = <<"VK_PIPELINE_BIND_POINT_COMPUTE">>
                    /\ f.textureCoordsDstStageMask[1] = {"COMPUTE_SHADER"}
               /\ \E b \in Barriers(cmd, {}, {}, f.textureCoordsDstStageMask[1],
                                    f.textureCoordsDstAccessMask[1]) : b < j

C14_Witness ==
  /\ call.op = "hrtxBarrierFlags"
  /\ call.nonNull = {"textureCoordsDstStageMask", "textureCoordsDstAccessMask",
                     "heightmapLayout"}
  /\ At(cmd, "vkCmdDispatch") # {}

(* The block factor of the sizing formulas, 4^(max(3, level) - 3).         *)
BlockFactor(level) == Pow2(2 * (Max(3, level) - 3))

(* C15: for every 32-bit primitiveCount and every subdivision level,        *)
(* baryLosslessBlocks is the mathematical product primitiveCount x          *)
(* 4^(max(3, level) - 3), with no wrap-around, and the value buffer is not  *)
(* smaller than 64 bytes times that product.                                *)
C15_BlocksAreTheExactProduct ==
  LET z == call.sizing
      product == Mul(Extend(z.primitiveCount, 8), U64(BlockFactor(z.subdivisionLevel)), 8)
  IN  /\ z.blocks # <<>> => z.blocks = product
      /\ z.valuesSize # <<>> => ~Less(z.valuesSize, Mul(product, U64(64), 8))

(* C16 as stated: primitiveCount = 10 at subdivision level 5 yields         *)
(* 10 x 4 = 40 blocks.                                                      *)
C16_TenAtLevelFiveIsForty ==
  LET z == call.sizing
  IN  (z.primitiveCount = U32(10) /\ z.subdivisionLevel = 5 /\ z.blocks # <<>>) =>
        z.blocks = U64(40)

(* C16: primitiveCount = 10 at subdivision level 5 yields                   *)
(* 10 x 4^(5-3) = 10 x 16 = 160 blocks.                                     *)
C16_TenAtLevelFiveIsOneHundredSixty ==
  LET z == call.sizing
  IN  (z.primitiveCount = U32(10) /\ z.subdivisionLevel = 5 /\ z.blocks # <<>>) =>
        z.blocks = U64(160)

C16_Witness ==
  /\ call.sizing.primitiveCount = U32(10)
  /\ call.sizing.subdivisionLevel = 5
  /\ call.sizing.blocks = U64(10 * BlockFactor(5))

(* C17: for every subdivision level in 0..5, microVertsPerTriangle is       *)
(* T(T+1)/2 with T = 2^level + 1, i.e. 3, 6, 15, 45, 153, 561, and the      *)
(* product T(T+1) fits the 32-bit arithmetic it is computed in.             *)
C17_MicroVertsClosedForm ==
  LET z == call.sizing
      level == z.subdivisionLevel
      T == Pow2(level) + 1
  IN  (z.microVerts # <<>> /\ level \in 0..5) =>
        /\ z.microVerts = U64((T * (T + 1)) \div 2)
        /\ ToInt(z.microVerts) = <<3, 6, 15, 45, 153, 561>>[level + 1]
        /\ Extend(U64(T * (T + 1)), 4) \o U32(0) = U64(T * (T + 1))

C17_Witness ==
  /\ call.sizing.subdivisionLevel = 5
  /\ call.sizing.microVerts = U64(561)

(* C18: for every accepted request (primitiveCount >= 1, level 0..5) the   *)
(* group count handed to the dispatch is ceil(totalThreads / workgroup     *)
(* size), where totalThreads is 45 x primitiveCount x 4^(level-3) above     *)
(* level 3 and primitiveCount x microVertsPerTriangle(level) otherwise,     *)
(* also where totalThreads does not fit a signed 32-bit integer.            *)
C18_GroupCountIsCeiling ==
  LET z == call.sizing
      level == z.subdivisionLevel
      count == Extend(z.primitiveCount, 8)
      T == Pow2(level) + 1
      totalThreads ==
        IF level > 3
        THEN Mul(U64(45), Mul(count, U64(BlockFactor(level)), 8), 8)
        ELSE Mul(count, U64((T * (T + 1)) \div 2), 8)
      ceiling == Div(Add(totalThreads, U64(COMPRESS_WORKGROUP_SIZE - 1), 8),
                     COMPRESS_WORKGROUP_SIZE)
  IN  (z.groupCount # <<>> /\ z.primitiveCount # U32(0) /\ level \in 0..5) =>
        Extend(z.groupCount, 8) = ceiling

(* C19 as stated: for every power-of-two alignment A and every required     *)
(* size S the driver reports, the scratch size is the smallest multiple of  *)
(* A that is >= max(S, 4).                                                  *)
C19_ScratchIsSmallestMultiple ==
  LET z == call.sizing
      A == z.scratchAlignment
      least == MaxW(z.buildScratchSize, U64(4))
      size == z.scratchSize
  IN  size # <<>> =>
        /\ And(size, Sub(A, U64(1), 8)) = U64(0)
        /\ ~Less(size, least)
        /\ Less(Sub(size, least, 8), A)

(* C19: for every power-of-two alignment A and every required size S with  *)
(* max(S, 4) <= 2^64 - A, the scratch size is the smallest multiple of A    *)
(* that is >= max(S, 4); for larger S that multiple does not fit the        *)
(* 64-bit size, the sum wraps and the scratch size is 0.                    *)
C19_ScratchIsSmallestRepresentableMultiple ==
  LET z == call.sizing
      A == z.scratchAlignment
      least == MaxW(z.buildScratchSize, U64(4))
      size == z.scratchSize
      fits == ~Less(Sub(U64(0), A, 8), least)
  IN  size # <<>> =>
        IF fits
        THEN /\ And(size, Sub(A, U64(1), 8)) = U64(0)
             /\ ~Less(size, least)
             /\ Less(Sub(size, least, 8), A)
        ELSE size = U64(0)

C19_Witness ==
  /\ call.sizing.buildScratchSize = U64(129)
  /\ call.sizing.scratchAlignment = U64(128)
  /\ call.sizing.scratchSize = U64(256)

(* C20: the address table has baseEntries(levels 0..3) + 45 x (4 + 16) + 1  *)
(* = 969 + 1 entries, the constructor's cursor ends exactly at the end of   *)
(* the table, and the table holds 4 level-4 and 16 level-5 blocks, the      *)
(* per-triangle block factor 4^(level-3) of baryLosslessBlocks.             *)
C20_AddressTableLength ==
  LET t == call.sizing.table
      baseEntries == ToInt(microVertsPerTriangle(0)) + ToInt(microVertsPerTriangle(1))
                     + ToInt(microVertsPerTriangle(2)) + ToInt(microVertsPerTriangle(3))
      perTriangle(l) ==
        baryLosslessBlocks([NoCreate EXCEPT !.primitiveCount = U32(1),
                                            !.subdivisionLevel = l])
  IN  t # NoTable =>
        /\ t.size = baseEntries + 45 * (4 + 16) + 1
        /\ t.size = 969 + 1
        /\ t.next = t.size
        /\ \A l \in {4, 5} : /\ t.blocks[l] = BlockFactor(l)
                             /\ U64(t.blocks[l]) = perTriangle(l)

C20_Witness ==
  /\ call.sizing.table.size = 970
  /\ call.sizing.table.next = 970
  /\ call.sizing.table.blocks = [l \in {4, 5} |-> IF l = 4 THEN 4 ELSE 16]

(* C21: in the constructed address table, with B the number of base        *)
(* entries through level 3, entries 0..B-1 are the base table's entries    *)
(* 0..B-1; entry B + 45b + i (b in 0..3, i in 0..44) is the base table's    *)
(* level-4 entry at the local-to-global index of (b, i); entry              *)
(* B + 180 + 45b + i (b in 0..15) is the base table's level-5 entry at the  *)
(* local-to-global index of (4 + b, i); the last entry is the zero padding. *)
C21_TableContents ==
  LET t == call.sizing.table
      L == birdIndexBlockLocalToGlobal(call.sizing.contents)
      B == birdVertexToBaryTableOffsets[4 + 1]
      level4 == birdVertexToBaryTableOffsets[4 + 1]
      level5 == birdVertexToBaryTableOffsets[5 + 1]
      entry(k) == t.entries[k + 1].value
  IN  t # NoTable =>
        /\ Len(t.entries) = B + 180 + 720 + 1
        /\ \A k \in 0..(B - 1) : entry(k) = birdVertexToBaryTable(k)
        /\ \A b \in 0..3, i \in 0..44 :
             entry(B + 45 * b + i) = birdVertexToBaryTable(level4 + L[b][i])
        /\ \A b \in 0..15, i \in 0..44 :
             entry(B + 180 + 45 * b + i) = birdVertexToBaryTable(level5 + L[4 + b][i])
        /\ entry(Len(t.entries) - 1) = <<"BaryUV16{}", 0>>

C21_Witness ==
  /\ call.sizing.contents = 1
  /\ Len(call.sizing.table.entries) = 970
  /\ call.sizing.table.entries[69 + 180 + 45 * 2 + 7 + 1].value
       = birdVertexToBaryTable(222 + birdIndexBlockLocalToGlobal(1)[6][7])


(* ---- C22 -------------------------------------------------------------- *)
(* What a construction owns: the buffers, descriptor pools and sets and    *)
(* micromap objects created by the effects it has executed, none once a    *)
(* throwing callback has unwound it.                                       *)
OwnedBy(m) ==
  IF maps[m].state \in {"constructing", "live"} THEN CreatedSoFar(m, maps[m].pc) ELSE {}

PipelineState ==
  <<pipelines, {o \in objects : o[1] = "P"}, {b \in buffers : b.id[1] = "P"}, cmd>>

RECURSIVE CommandsAmong(_, _)
CommandsAmong(effs, n) ==
  IF n = 0 THEN <<>>
  ELSE IF effs[n].k = "cmd" THEN Append(CommandsAmong(effs, n - 1), effs[n].c)
  ELSE CommandsAmong(effs, n - 1)

(* The same construction (same pipeline, request and driver answers) done  *)
(* by itself in one piece.                                                 *)
ConstructedAlone(m, map, checkResultCallback) ==
  Construct(HrtxMap_T(m, map.ctx, map.create, map.drv), checkResultCallback)

PositionsOf(ids, members) == {i \in DOMAIN ids : ids[i][3] \in members}

(* C23: a map's destructor destroys the driver micromap object before the  *)
(* micromap's storage buffer and releases the scratch, micromap, value     *)
(* and triangle buffers before the bias/scale buffer; a pipeline's         *)
(* destructor destroys the context after every member that depends on it,  *)
(* and its constructor builds the context before any of them.              *)
C23_ReverseDependencyOrder ==
  LET rel == call.released
      dependOnCtx == {"m_pipeline", "m_pipelineLayout", "m_heightmapBinding.m_layout",
                      "m_birdTableDescriptors.m_set", "m_birdTableDescriptors.m_pool",
                      "m_birdTable", "m_birdTableBinding.m_layout", "m_shaderCompress"}
      mapBuffers == {"m_micromapScratch", "m_micromap.m_data",
                     "m_baryValues", "m_baryTriangles"}
  IN  /\ (call.op = "hrtxDestroyMap" /\ rel # <<>>) =>
           /\ \A b \in mapBuffers \cup {"m_micromap.m_micromap", "m_biasAndScale"} :
                Cardinality(PositionsOf(rel, {b})) = 1
           /\ Before(PositionsOf(rel, {"m_micromap.m_micromap"}),
                     PositionsOf(rel, {"m_micromap.m_data"}))
           /\ Before(PositionsOf(rel, mapBuffers), PositionsOf(rel, {"m_biasAndScale"}))
      /\ call.op = "hrtxDestroyPipeline" =>
           /\ PositionsOf(rel, {"m_ctx"}) = {Len(rel)}
           /\ PositionsOf(rel, dependOnCtx) = 1..(Len(rel) - 1)
           /\ Cardinality({rel[i][3] : i \in DOMAIN rel}) = Cardinality(dependOnCtx) + 1
      /\ call.op = "hrtxCreatePipeline" =>
           /\ PositionsOf(call.created, {"m_ctx"}) = {1}
           /\ PositionsOf(call.created, dependOnCtx) = 2..Len(call.created)

C23_Witness ==
  /\ call.op = "hrtxDestroyPipeline"
  /\ Len(call.released) = 9
  /\ \E m \in Maps : maps[m].state = "destroyed"


(* ---- C24 -------------------------------------------------------------- *)
(* Buffer::Buffer's assert(m_size % 4 == 0) on a 64-bit size: the low byte *)
(* decides the residue modulo 4.                                           *)
BufferSizeAssertion(m_size) == m_size[1] % 4 = 0

(* C24: the assertion of the Buffer constructor holds for the sizes the    *)
(* constructors compute: the scratch buffer for every reported size and    *)
(* alignment, the value and triangle buffers, and the address table.       *)
C24_BufferSizeAssertionHolds ==
  LET z == call.sizing
  IN  /\ z.scratchSize # <<>> => BufferSizeAssertion(z.scratchSize)
      /\ z.valuesSize # <<>> => BufferSizeAssertion(z.valuesSize)
      /\ z.trianglesSize # <<>> => BufferSizeAssertion(z.trianglesSize)
      /\ z.table # NoTable => BufferSizeAssertion(U64(z.table.size * SizeofBaryUV16))


(* ---- C25 -------------------------------------------------------------- *)
(* The deepest level the address table has slices for, and the shift       *)
(* amount of baryLosslessBlocks' `1U << ((max(3, level) - 3) * 2)`.        *)
DeepestTableLevel == 5

BlockFactorShift(create) == (Max(3, create.subdivisionLevel) - 3) * 2

(* C25: a call of hrtxCmdCreateMap that records a dispatch or keeps a      *)
(* usage record was made with a subdivision level of 0..5, and its block   *)
(* factor was computed with a shift amount below 32.                       *)
C25_DispatchedLevelsAreCovered ==
  (call.op = "hrtxCmdCreateMap" /\ (At(Seg, "vkCmdDispatch") # {} \/ CreatedMap)) =>
    /\ call.create.subdivisionLevel \in 0..DeepestTableLevel
    /\ \A m \in LiveMaps : \A i \in DOMAIN maps[m].usages :
         maps[m].usages[i].subdivisionLevel \in 0..DeepestTableLevel
    /\ BlockFactorShift(call.create) < 32


C27_LoaderNeverCallsNull ==
  LET create == call.pipelineCreate
      anySet == \/ create.instance # VK_NULL_HANDLE
                \/ create.getInstanceProcAddr # nullptr
                \/ create.getDeviceProcAddr # nullptr
  IN  call.op = "hrtxCreatePipeline" =>
        /\ call.vk.table = IF anySet THEN "dynamic" ELSE "static"
        /\ call.vk.invokedNull = {}
        /\ ~crashed

====
